---- MODULE Spec2Model ----
(***************************************************************************)
(* A model of iv.c, a terminal image viewer with vi-style navigation:      *)
(* the start-up sequence of main (option parsing, image loading, thumbnail *)
(* generation, raw terminal mode), the grid/focus main loop with its       *)
(* scroll computation and grid renderer, the teardown, and the kitty       *)
(* protocol encoder with its base64 routine.                               *)
(***************************************************************************)
EXTENDS Integers, Sequences, FiniteSets, TLC

(* -------------------- CONFIG (iv.c 18-21) -------------------- *)

THUMB_ROWS == 5
THUMB_COLS == 10
SPACING_ROWS == 1
SPACING_COLS == 2

(* Values of <stdlib.h>/<stdio.h> the program uses. *)
EXIT_FAILURE == 1
EOF == -1

(* -------------------- BOUNDS OF THE MODEL -------------------- *)

\* largest number of images the loader delivers
MaxItems == 5
\* largest value of the -c option that is tried (the default of 4 is always tried)
MaxCols == 3
\* terminal heights tried are 0 .. MaxRowUnits full thumbnail rows, with and without a remainder
MaxRowUnits == 2
\* longest path handed to the protocol encoder
MaxPathLen == 3

(* -------------------- BYTES AND STRINGS -------------------- *)

\* A C string is modelled as the sequence of its bytes (1..255); a null
\* pointer as the one-byte sequence <<0>>, which no C string equals.
NULL == <<0>>

\* The byte values paths are built from in the encoder specification.
PathBytes == {1, 47, 97, 128, 255}

RECURSIVE SeqsUpTo(_, _)
SeqsUpTo(S, n) ==
  IF n = 0 THEN {<<>>}
  ELSE LET shorter == SeqsUpTo(S, n - 1)
       IN  shorter \cup {Append(s, b) : s \in {t \in shorter : Len(t) = n - 1}, b \in S}

\* "\x1b_Ga=T,f=100,t=f,c=10,r=5,C=1;" with c=THUMB_COLS, r=THUMB_ROWS
KittyThumbHeader ==
  <<27, 95, 71, 97, 61, 84, 44, 102, 61, 49, 48, 48, 44, 116, 61, 102, 44,
    99, 61, 49, 48, 44, 114, 61, 53, 44, 67, 61, 49, 59>>

\* "\x1b\\"
KittyTerminator == <<27, 92>>

\* "[?]"
Placeholder == <<91, 63, 93>>

\* "[b64-fail]"
B64FailText == <<91, 98, 54, 52, 45, 102, 97, 105, 108, 93>>

(* -------------------- KITTY PROTOCOL (iv.c 235-300) -------------------- *)

\* tbl[] of b64encode_path, indexed from 0
tbl(k) ==
  IF k < 26 THEN 65 + k
  ELSE IF k < 52 THEN 97 + (k - 26)
  ELSE IF k < 62 THEN 48 + (k - 52)
  ELSE IF k = 62 THEN 43
  ELSE 47

\* One pass of the while loop of b64encode_path, reading from 0-based index i:
\* the inner for loop builds v and pad, then four characters are stored.
\* v holds three bytes, so it stays below 2^24 and the unsigned int never wraps.
b64group(path, i) ==
  LET len == Len(path)
      byte(n) == IF i + n < len THEN path[i + n + 1] ELSE 0
      pad == IF i + 3 <= len THEN 0 ELSE (i + 3) - len
      v == byte(0) * 65536 + byte(1) * 256 + byte(2)
  IN  << tbl((v \div 262144) % 64),
         tbl((v \div 4096) % 64),
         IF pad < 2 THEN tbl((v \div 64) % 64) ELSE 61,
         IF pad < 1 THEN tbl(v % 64) ELSE 61 >>

RECURSIVE b64loop(_, _)
b64loop(path, i) ==
  IF i < Len(path) THEN b64group(path, i) \o b64loop(path, i + 3) ELSE <<>>

\* a faulty variant: the last group of a path whose length is not a multiple of 3 is dropped
b64encode_path_trunc(path) ==
  SubSeq(b64loop(path, 0), 1, 4 * (Len(path) \div 3))

b64encode_path(path) == b64loop(path, 0)

\* a faulty variant: the placeholder branch is gone and a null path is encoded as ""
display_thumbnail_kitty_noplaceholder(thumb_path, allocOk) ==
  IF ~allocOk THEN B64FailText
  ELSE KittyThumbHeader
         \o b64encode_path(IF thumb_path = NULL THEN <<>> ELSE thumb_path)
         \o KittyTerminator

\* The bytes display_thumbnail_kitty prints; allocOk is whether calloc in
\* b64encode_path succeeded.
display_thumbnail_kitty(thumb_path, allocOk) ==
  IF thumb_path = NULL THEN Placeholder
  ELSE IF ~allocOk THEN B64FailText
  ELSE KittyThumbHeader \o b64encode_path(thumb_path) \o KittyTerminator

(* -------------------- STATE -------------------- *)

VARIABLES
  pc,            \* where the process is: "args", "load", "check", "gen", "raw",
                 \* "adjust", "render", "read", "focus", "focus_read", "teardown",
                 \* "return", "exited", "killed" ("encode"/"encoded" in SpecEnc)
  grid_cols,     \* main: grid_cols
  count,         \* list.count
  entries,       \* list.entries: 0..count-1 -> [original_path, thumb_path, generated]
  gen_i,         \* the index i of the thumbnail loop of main
  mode,          \* main: mode
  selected,      \* main: selected
  running,       \* main: running
  ch,            \* the local ch of the loop body / of focus_view (NoKey when out of scope)
  scroll_offset, \* static int scroll_offset
  ws_adj,        \* ws.ws_row as adjust_scroll_for_selection used it in this iteration (-1: none)
  frame,         \* what render_grid wrote in this iteration (NoFrame: nothing)
  term,          \* the terminal's mode: "orig" or "raw"
  atexit,        \* the handlers registered with atexit(), in registration order
  files,         \* indices of the items whose thumbnail file exists in TMP_DIR
  focus_file,    \* whether the focus image of focus_view exists in TMP_DIR
  removed,       \* indices of the items whose thumbnail path was passed to remove()
  stderr,        \* the kinds of message the start-up code has written to stderr
  exit_status,   \* the exit status of the process (-1 while it runs or when killed)
  n_restore,     \* calls of disable_raw_mode so far
  n_clear_all,   \* calls of kitty_delete_all so far
  n_remove,      \* calls of remove_thumbnails so far
  n_free,        \* calls of free_imagelist so far
  ever_raw,      \* history: tcsetattr(raw) has succeeded
  ever_rendered, \* history: render_grid has run
  enc_path,      \* SpecEnc: the argument of display_thumbnail_kitty
  enc_out,       \* SpecEnc: the bytes it printed
  adj_from,      \* scroll_offset as adjust_scroll_for_selection found it in this iteration (-1: none)
  ws_same,       \* render_grid read the row count adjust_scroll_for_selection read in this iteration
  last_io        \* history, the last i/o: "frame" (a screen was drawn), "key" (the read of the
                 \* grid branch returned), "fkey" (a read of focus_view returned); "none" at first

vars ==
  << pc, grid_cols, count, entries, gen_i, mode, selected, running, ch,
     scroll_offset, ws_adj, frame, term, atexit, files, focus_file, removed,
     stderr, exit_status, n_restore, n_clear_all, n_remove, n_free,
     ever_raw, ever_rendered, enc_path, enc_out, adj_from, ws_same, last_io >>

\* the variables of main's loop and of the list
progVars == << grid_cols, count, entries, gen_i, mode, selected, running, ch, scroll_offset >>
\* the variables of the screen
screenVars == << ws_adj, frame, ever_rendered >>
\* the variables of the environment other than the terminal mode
fileVars == << files, focus_file, removed >>
\* the teardown counters other than n_restore
tearVars == << n_clear_all, n_remove, n_free >>
encVars == << enc_path, enc_out >>
\* history of one loop iteration and of the i/o, which the properties refer to;
\* it is kept for a running process and dropped when a signal ends it
histVars == << adj_from, ws_same, last_io >>

MODE_GRID == "MODE_GRID"
MODE_FOCUS == "MODE_FOCUS"

NoKey == -2
NoFrame ==
  [drawn |-> FALSE, ws_row |-> 0, ws_col |-> 0, start_row |-> 0, end_row |-> 0,
   ops |-> <<>>, bottom |-> 0, status |-> <<>>]

\* The bytes read_keypress can return that main and focus_view tell apart:
\* EOF, 'q', 'h', 'l', 'k', 'j', '\n', '\r', ESC, and 'x' for any other byte.
Keys == {EOF, 113, 104, 108, 107, 106, 10, 13, 27, 120}

\* What ioctl(TIOCGWINSZ) can deliver: failure, or a size.
WsRows == {u * (THUMB_ROWS + SPACING_ROWS) + d : u \in 0..MaxRowUnits, d \in {0, THUMB_ROWS}}
WsCols == {40}
Winsizes ==
  {[ok |-> FALSE, row |-> 0, col |-> 0]}
    \cup {[ok |-> TRUE, row |-> r, col |-> c] : r \in WsRows, c \in WsCols}

\* The path generate_thumbnail builds for item i ("/tmp/iv_<name>.thumb.png",
\* shortened to "/t<i>"; distinct items are taken to have distinct file names).
ThumbPath(i) == <<47, 116, 48 + i>>

\* The path add_image_entry stores as original_path of item i (shortened to "i<i>").
OrigPath(i) == <<105, 48 + i>>

(* -------------------- VERTICAL SCROLLING (iv.c 336-370) -------------------- *)

\* int visible_rows = ws.ws_row / row_height; if (visible_rows < 1) visible_rows = 1;
visible_rows_of(ws_row) ==
  LET row_height == IF THUMB_ROWS + SPACING_ROWS < 1 THEN 1 ELSE THUMB_ROWS + SPACING_ROWS
      v == ws_row \div row_height
  IN  IF v < 1 THEN 1 ELSE v

\* int total_rows = (list->count + grid_cols - 1) / grid_cols;
total_rows_of(cnt, cols) == (cnt + cols - 1) \div cols

\* the three clamping ifs shared by adjust_scroll_for_selection and render_grid
clamp_scroll(so, total_rows, visible_rows) ==
  LET a == IF so < 0 THEN 0 ELSE so
      b == IF a > total_rows - visible_rows THEN total_rows - visible_rows ELSE a
  IN  IF b < 0 THEN 0 ELSE b

\* a faulty variant: the scroll-down branch puts the selected row at the top of the window
adjust_scroll_to_top(so, ws_row, cnt, cols, sel) ==
  LET visible_rows == visible_rows_of(ws_row)
      total_rows == total_rows_of(cnt, cols)
      sel_row == sel \div cols
      moved == IF sel_row < so THEN sel_row
               ELSE IF sel_row >= so + visible_rows THEN sel_row
               ELSE so
  IN  clamp_scroll(moved, total_rows, visible_rows)

\* a faulty variant: the scroll-down branch moves the window one row per call
adjust_scroll_one_step(so, ws_row, cnt, cols, sel) ==
  LET visible_rows == visible_rows_of(ws_row)
      total_rows == total_rows_of(cnt, cols)
      sel_row == sel \div cols
      moved == IF sel_row < so THEN sel_row
               ELSE IF sel_row >= so + visible_rows THEN so + 1
               ELSE so
  IN  clamp_scroll(moved, total_rows, visible_rows)

\* a faulty variant: the scroll-down branch puts the selected row one past the window
adjust_scroll_off_by_one(so, ws_row, cnt, cols, sel) ==
  LET visible_rows == visible_rows_of(ws_row)
      sel_row == sel \div cols
      moved == IF sel_row < so THEN sel_row
               ELSE IF sel_row >= so + visible_rows THEN sel_row - visible_rows
               ELSE so
  IN  IF moved < 0 THEN 0 ELSE moved

\* adjust_scroll_for_selection: the new scroll_offset, from the old one (so)
adjust_scroll_for_selection(so, ws_row, cnt, cols, sel) ==
  LET visible_rows == visible_rows_of(ws_row)
      total_rows == total_rows_of(cnt, cols)
      sel_row == sel \div cols
      moved == IF sel_row < so THEN sel_row
               ELSE IF sel_row >= so + visible_rows THEN sel_row - visible_rows + 1
               ELSE so
  IN  clamp_scroll(moved, total_rows, visible_rows)

(* -------------------- GRID RENDER (iv.c 378-452) -------------------- *)

\* a faulty variant: the screen row is counted from grid row 0, not from start_row
RECURSIVE draw_row_absolute(_, _, _, _, _, _, _)
\* a faulty variant: a star is drawn below every thumbnail
RECURSIVE draw_row_star_all(_, _, _, _, _, _, _)
draw_row_star_all(row, col, start_row, cols, cnt, ents, sel) ==
  LET row_height == THUMB_ROWS + SPACING_ROWS
      col_width == THUMB_COLS + SPACING_COLS
      i == row * cols + col
      screen_row == (row - start_row) * row_height + 1
      screen_col == col * col_width + 1
      thumb == [op |-> "thumb", i |-> i, row |-> screen_row, col |-> screen_col,
                out |-> display_thumbnail_kitty(ents[i].thumb_path, TRUE)]
      star == [op |-> "star", i |-> i, row |-> screen_row + THUMB_ROWS,
               col |-> screen_col + THUMB_COLS \div 2, out |-> <<42>>]
  IN  IF col < cols /\ i < cnt
      THEN <<thumb, star>>
             \o draw_row_star_all(row, col + 1, start_row, cols, cnt, ents, sel)
      ELSE <<>>

draw_row_absolute(row, col, start_row, cols, cnt, ents, sel) ==
  LET row_height == THUMB_ROWS + SPACING_ROWS
      col_width == THUMB_COLS + SPACING_COLS
      i == row * cols + col
      screen_row == row * row_height + 1
      screen_col == col * col_width + 1
      thumb == [op |-> "thumb", i |-> i, row |-> screen_row, col |-> screen_col,
                out |-> display_thumbnail_kitty(ents[i].thumb_path, TRUE)]
      star == [op |-> "star", i |-> i, row |-> screen_row + THUMB_ROWS,
               col |-> screen_col + THUMB_COLS \div 2, out |-> <<42>>]
  IN  IF col < cols /\ i < cnt
      THEN (IF i = sel THEN <<thumb, star>> ELSE <<thumb>>)
             \o draw_row_absolute(row, col + 1, start_row, cols, cnt, ents, sel)
      ELSE <<>>

\* The body of the inner for loop of render_grid from column col on: the cursor
\* move and thumbnail of each item of the row, and the star after the selected one.
RECURSIVE draw_row(_, _, _, _, _, _, _)
draw_row(row, col, start_row, cols, cnt, ents, sel) ==
  LET row_height == THUMB_ROWS + SPACING_ROWS
      col_width == THUMB_COLS + SPACING_COLS
      i == row * cols + col
      screen_row == (row - start_row) * row_height + 1
      screen_col == col * col_width + 1
      thumb == [op |-> "thumb", i |-> i, row |-> screen_row, col |-> screen_col,
                out |-> display_thumbnail_kitty(ents[i].thumb_path, TRUE)]
      star == [op |-> "star", i |-> i, row |-> screen_row + THUMB_ROWS,
               col |-> screen_col + THUMB_COLS \div 2, out |-> <<42>>]
  IN  IF col < cols /\ i < cnt
      THEN (IF i = sel THEN <<thumb, star>> ELSE <<thumb>>)
             \o draw_row(row, col + 1, start_row, cols, cnt, ents, sel)
      ELSE <<>>

\* The outer for loop of render_grid from row on.
RECURSIVE draw_rows(_, _, _, _, _, _, _)
draw_rows(row, end_row, start_row, cols, cnt, ents, sel) ==
  IF row < end_row
  THEN draw_row(row, 0, start_row, cols, cnt, ents, sel)
         \o draw_rows(row + 1, end_row, start_row, cols, cnt, ents, sel)
  ELSE <<>>

\* render_grid: the frame written, given the clamped scroll offset so and the
\* size ws that ioctl delivered (24 x 80 when it failed).
render_grid(so, ws, cnt, cols, ents, sel) ==
  LET ws_row == IF ws.ok THEN ws.row ELSE 24
      ws_col == IF ws.ok THEN ws.col ELSE 80
      row_height == THUMB_ROWS + SPACING_ROWS
      visible_rows == visible_rows_of(ws_row)
      total_rows == total_rows_of(cnt, cols)
      start_row == so
      end_row == IF so + visible_rows > total_rows THEN total_rows ELSE so + visible_rows
      bottom_line == visible_rows * row_height + 1
  IN  [drawn |-> TRUE, ws_row |-> ws_row, ws_col |-> ws_col,
       start_row |-> start_row, end_row |-> end_row,
       ops |-> draw_rows(start_row, end_row, start_row, cols, cnt, ents, sel),
       bottom |-> IF bottom_line < ws_row THEN bottom_line ELSE ws_row,
       status |-> IF sel >= 0 /\ sel < cnt THEN ents[sel].original_path ELSE <<>>]

(* -------------------- NAVIGATION (iv.c 579-603) -------------------- *)

\* a faulty variant: j is refused when it aims at the last item
key_j_off_by_one(sel, cols, cnt) == IF sel + cols < cnt - 1 THEN sel + cols ELSE sel

\* a faulty variant: l steps to the next item also from the last column of a row
key_l_wraps(sel, cols, cnt) == IF sel + 1 < cnt THEN sel + 1 ELSE sel

\* a faulty variant: j steps down without looking at the item count
key_j_unchecked(sel, cols, cnt) == sel + cols

key_h(sel, cols) == IF sel % cols > 0 THEN sel - 1 ELSE sel
key_l(sel, cols, cnt) == IF sel + 1 < cnt /\ sel % cols < cols - 1 THEN sel + 1 ELSE sel
key_k(sel, cols) == IF sel - cols >= 0 THEN sel - cols ELSE sel
key_j(sel, cols, cnt) == IF sel + cols < cnt THEN sel + cols ELSE sel

\* the value of selected after the if/else chain of the grid branch has seen key c
grid_selected(c, sel, cols, cnt) ==
  IF c = 104 THEN key_h(sel, cols)
  ELSE IF c = 108 THEN key_l(sel, cols, cnt)
  ELSE IF c = 107 THEN key_k(sel, cols)
  ELSE IF c = 106 THEN key_j(sel, cols, cnt)
  ELSE sel

\* a faulty variant: end-of-input read in the grid branch is ignored like any other key
grid_running_ignores_eof(c) == IF c = 113 THEN 0 ELSE 1

\* the value of running after the chain
grid_running(c) == IF c = EOF \/ c = 113 THEN 0 ELSE 1

\* the value of mode after the chain
grid_mode(c) == IF c \notin {EOF, 113, 104, 108, 107, 106} /\ (c = 10 \/ c = 13) THEN MODE_FOCUS ELSE MODE_GRID

\* a faulty variant: Enter leaves focus_view too
focus_breaks_on_enter(c) == c = 27 \/ c = 113 \/ c = EOF \/ c = 10 \/ c = 13

\* the test of focus_view's read loop
focus_breaks(c) == c = 27 \/ c = 113 \/ c = EOF

(* -------------------- PROCESS EXIT -------------------- *)

\* disable_raw_mode (iv.c 62-66) acting on the terminal mode
disable_raw_mode(t) == "orig"

\* exit(status), also reached by returning from main: the handlers registered
\* with atexit run (only disable_raw_mode is ever registered), the process ends.
Exit(status) ==
  /\ pc' = "exited"
  /\ exit_status' = status
  /\ term' = IF Len(atexit) > 0 THEN disable_raw_mode(term) ELSE term
  /\ n_restore' = n_restore + Len(atexit)
  /\ UNCHANGED atexit

(* -------------------- MAIN: START-UP (iv.c 516-568) -------------------- *)

Init ==
  /\ pc = "args"
  /\ grid_cols = 4
  /\ count = 0
  /\ entries = <<>>
  /\ gen_i = 0
  /\ mode = MODE_GRID
  /\ selected = 0
  /\ running = 1
  /\ ch = NoKey
  /\ scroll_offset = 0
  /\ ws_adj = -1
  /\ frame = NoFrame
  /\ term = "orig"
  /\ atexit = <<>>
  /\ files = {}
  /\ focus_file = FALSE
  /\ removed = {}
  /\ stderr = {}
  /\ exit_status = -1
  /\ n_restore = 0
  /\ n_clear_all = 0
  /\ n_remove = 0
  /\ n_free = 0
  /\ ever_raw = FALSE
  /\ ever_rendered = FALSE
  /\ adj_from = -1
  /\ ws_same = FALSE
  /\ last_io = "none"
  /\ enc_path = NULL
  /\ enc_out = <<>>

\* The getopt loop and the optind test: a usage error, or grid_cols from -c
\* (atoi's value c; no -c leaves the default).
ParseArgs ==
  /\ pc = "args"
  /\ \/ /\ stderr' = stderr \cup {"usage"}
        /\ Exit(EXIT_FAILURE)
        /\ UNCHANGED << progVars, screenVars, fileVars, tearVars, ever_raw, encVars, histVars >>
     \/ /\ \E c \in -1..MaxCols : grid_cols' = IF c < 1 THEN 4 ELSE c
        /\ pc' = "load"
        /\ UNCHANGED << count, entries, gen_i, mode, selected, running, ch, scroll_offset,
                        screenVars, fileVars, tearVars, ever_raw, encVars, histVars,
                        term, atexit, stderr, exit_status, n_restore >>

\* load_images_from_dir / load_images_from_argv: n entries with no thumbnail,
\* or an unreadable directory, or realloc failing in add_image_entry.
LoadImages ==
  /\ pc = "load"
  /\ \/ /\ stderr' = stderr \cup {"opendir", "Could not read directory."}
        /\ Exit(1)
        /\ UNCHANGED << progVars, screenVars, fileVars, tearVars, ever_raw, encVars, histVars >>
     \/ /\ stderr' = stderr \cup {"Out of memory."}
        /\ Exit(EXIT_FAILURE)
        /\ UNCHANGED << progVars, screenVars, fileVars, tearVars, ever_raw, encVars, histVars >>
     \/ /\ \E n \in 0..MaxItems :
             /\ count' = n
             /\ entries' = [i \in 0..(n - 1) |->
                            [original_path |-> OrigPath(i), thumb_path |-> NULL, generated |-> 0]]
        /\ pc' = "check"
        /\ UNCHANGED << grid_cols, gen_i, mode, selected, running, ch, scroll_offset,
                        screenVars, fileVars, tearVars, ever_raw, encVars, histVars,
                        term, atexit, stderr, exit_status, n_restore >>

\* a faulty variant: the empty list is not rejected
CheckCountMissing ==
  /\ pc = "check"
  /\ pc' = "gen"
  /\ gen_i' = 0
  /\ UNCHANGED << grid_cols, count, entries, mode, selected, running, ch, scroll_offset,
                  screenVars, fileVars, tearVars, ever_raw, encVars, histVars,
                  term, atexit, stderr, exit_status, n_restore >>

\* if (list.count == 0) { ...; return 1; }, else on to the thumbnail loop
CheckCount ==
  /\ pc = "check"
  /\ IF count = 0
     THEN /\ stderr' = stderr \cup {"No images found."}
          /\ Exit(1)
          /\ UNCHANGED << progVars, screenVars, fileVars, tearVars, ever_raw, encVars, histVars >>
     ELSE /\ pc' = "gen"
          /\ gen_i' = 0
          /\ UNCHANGED << grid_cols, count, entries, mode, selected, running, ch,
                          scroll_offset, screenVars, fileVars, tearVars, ever_raw, encVars, histVars,
                          term, atexit, stderr, exit_status, n_restore >>

\* generate_thumbnail for entry i: on success the file exists and *thumb_out is its path
generate_thumbnail(ents, i, ok) ==
  IF ok THEN [ents EXCEPT ![i].thumb_path = ThumbPath(i)] ELSE ents

\* a faulty variant: a failed conversion ends the program
GenThumbFatal ==
  /\ pc = "gen"
  /\ gen_i < count
  /\ \E ok \in BOOLEAN :
       IF ok
       THEN /\ entries' = [generate_thumbnail(entries, gen_i, TRUE) EXCEPT ![gen_i].generated = 1]
            /\ files' = files \cup {gen_i}
            /\ gen_i' = gen_i + 1
            /\ pc' = IF gen_i + 1 < count THEN "gen" ELSE "raw"
            /\ UNCHANGED << stderr, term, atexit, exit_status, n_restore >>
       ELSE /\ stderr' = stderr \cup {"Failed to create thumbnail"}
            /\ Exit(EXIT_FAILURE)
            /\ UNCHANGED << entries, files, gen_i >>
  /\ UNCHANGED << grid_cols, count, mode, selected, running, ch, scroll_offset,
                  screenVars, focus_file, removed, tearVars, ever_raw, encVars, histVars >>

\* One pass of the thumbnail loop of main, the loop test after it included.
GenThumb ==
  /\ pc = "gen"
  /\ gen_i < count
  /\ \E ok \in BOOLEAN :
       /\ entries' = IF ok
                     THEN [generate_thumbnail(entries, gen_i, TRUE) EXCEPT ![gen_i].generated = 1]
                     ELSE generate_thumbnail(entries, gen_i, FALSE)
       /\ files' = IF ok THEN files \cup {gen_i} ELSE files
       /\ stderr' = IF ok THEN stderr ELSE stderr \cup {"Failed to create thumbnail"}
  /\ gen_i' = gen_i + 1
  /\ pc' = IF gen_i + 1 < count THEN "gen" ELSE "raw"
  /\ UNCHANGED << grid_cols, count, mode, selected, running, ch, scroll_offset,
                  screenVars, focus_file, removed, tearVars, ever_raw, encVars, histVars,
                  term, atexit, exit_status, n_restore >>

\* enable_raw_mode, then the initialisation of mode, selected and running.
EnableRawMode ==
  /\ pc = "raw"
  /\ \/ /\ stderr' = stderr \cup {"tcgetattr"}
        /\ Exit(EXIT_FAILURE)
        /\ UNCHANGED << progVars, ever_raw >>
     \/ /\ stderr' = stderr \cup {"tcsetattr"}
        /\ Exit(EXIT_FAILURE)
        /\ UNCHANGED << progVars, ever_raw >>
     \/ /\ term' = "raw"
        /\ ever_raw' = TRUE
        /\ atexit' = Append(atexit, "disable_raw_mode")
        /\ mode' = MODE_GRID
        /\ selected' = 0
        /\ running' = 1
        /\ pc' = "adjust"
        /\ UNCHANGED << grid_cols, count, entries, gen_i, ch, scroll_offset,
                        stderr, exit_status, n_restore >>
  /\ UNCHANGED << screenVars, fileVars, tearVars, encVars, histVars >>

(* -------------------- MAIN: THE LOOP (iv.c 574-611) -------------------- *)

\* adjust_scroll_for_selection(&list, selected, grid_cols) with what ioctl delivers
AdjustScroll ==
  /\ pc = "adjust"
  /\ \E ws \in Winsizes :
       LET ws_row == IF ws.ok THEN ws.row ELSE 24
       IN  /\ scroll_offset' =
                adjust_scroll_for_selection(scroll_offset, ws_row, count, grid_cols, selected)
           /\ ws_adj' = ws_row
  /\ adj_from' = scroll_offset
  /\ ch' = NoKey
  /\ pc' = "render"
  /\ UNCHANGED << grid_cols, count, entries, gen_i, mode, selected, running,
                  frame, ever_rendered, fileVars, tearVars, ever_raw, encVars,
                  ws_same, last_io,
                  term, atexit, stderr, exit_status, n_restore >>

\* render_grid(&list, grid_cols, selected) with what its own ioctl delivers
RenderGrid ==
  /\ pc = "render"
  /\ \E ws \in Winsizes :
       LET ws_row == IF ws.ok THEN ws.row ELSE 24
           so == clamp_scroll(scroll_offset, total_rows_of(count, grid_cols),
                              visible_rows_of(ws_row))
       IN  /\ scroll_offset' = so
           /\ frame' = render_grid(so, ws, count, grid_cols, entries, selected)
           /\ ws_same' = (ws_row = ws_adj)
  /\ ws_adj' = -1
  /\ adj_from' = -1
  /\ last_io' = "frame"
  /\ ever_rendered' = TRUE
  /\ pc' = "read"
  /\ UNCHANGED << grid_cols, count, entries, gen_i, mode, selected, running, ch,
                  fileVars, tearVars, ever_raw, encVars,
                  term, atexit, stderr, exit_status, n_restore >>

\* a faulty variant: a key the grid branch ignores is followed by the next read
\* with no frame drawn in between
GridKeyNoRedraw ==
  /\ pc = "read"
  /\ \E c \in Keys :
       /\ ch' = c
       /\ selected' = grid_selected(c, selected, grid_cols, count)
       /\ running' = grid_running(c)
       /\ mode' = grid_mode(c)
       /\ pc' = IF grid_running(c) = 0 THEN "teardown"
                ELSE IF grid_mode(c) = MODE_FOCUS THEN "focus"
                ELSE IF c = 120 THEN "read"
                ELSE "adjust"
  /\ frame' = NoFrame
  /\ ws_same' = FALSE
  /\ last_io' = "key"
  /\ UNCHANGED << grid_cols, count, entries, gen_i, scroll_offset, ws_adj, ever_rendered,
                  fileVars, tearVars, ever_raw, encVars, adj_from,
                  term, atexit, stderr, exit_status, n_restore >>

\* int ch = read_keypress(); and the if/else chain of the grid branch, then the
\* tests of while (running) and of mode
GridKey ==
  /\ pc = "read"
  /\ \E c \in Keys :
       /\ ch' = c
       /\ selected' = grid_selected(c, selected, grid_cols, count)
       /\ running' = grid_running(c)
       /\ mode' = grid_mode(c)
       /\ pc' = IF grid_running(c) = 0 THEN "teardown"
                ELSE IF grid_mode(c) = MODE_FOCUS THEN "focus"
                ELSE "adjust"
  /\ frame' = NoFrame
  /\ ws_same' = FALSE
  /\ last_io' = "key"
  /\ UNCHANGED << grid_cols, count, entries, gen_i, scroll_offset, ws_adj, ever_rendered,
                  fileVars, tearVars, ever_raw, encVars, adj_from,
                  term, atexit, stderr, exit_status, n_restore >>

\* focus_view up to its read loop: generate_focus fails and focus_view returns
\* (mode = MODE_GRID follows), or the focus image is made and displayed
FocusEnter ==
  /\ pc = "focus"
  /\ ch' = NoKey
  /\ \/ /\ mode' = MODE_GRID
        /\ pc' = "adjust"
        /\ UNCHANGED << focus_file, last_io >>
     \/ /\ focus_file' = TRUE
        /\ last_io' = "frame"
        /\ pc' = "focus_read"
        /\ UNCHANGED mode
  /\ UNCHANGED << grid_cols, count, entries, gen_i, selected, running, scroll_offset,
                  screenVars, files, removed, tearVars, ever_raw, encVars,
                  adj_from, ws_same,
                  term, atexit, stderr, exit_status, n_restore >>

\* a faulty variant: q or end-of-input read in focus_view ends the program
FocusKeyQuits ==
  /\ pc = "focus_read"
  /\ \E c \in Keys :
       /\ ch' = c
       /\ IF c = 27
          THEN /\ focus_file' = FALSE
               /\ mode' = MODE_GRID
               /\ pc' = "adjust"
               /\ UNCHANGED running
          ELSE IF c = 113 \/ c = EOF
          THEN /\ focus_file' = FALSE
               /\ running' = 0
               /\ pc' = "teardown"
               /\ UNCHANGED mode
          ELSE UNCHANGED << focus_file, mode, pc, running >>
  /\ last_io' = "fkey"
  /\ UNCHANGED << grid_cols, count, entries, gen_i, selected, scroll_offset,
                  screenVars, files, removed, tearVars, ever_raw, encVars,
                  adj_from, ws_same,
                  term, atexit, stderr, exit_status, n_restore >>

\* One pass of the read loop of focus_view; on a break the focus image is
\* removed, focus_view returns and main sets mode = MODE_GRID
FocusKey ==
  /\ pc = "focus_read"
  /\ \E c \in Keys :
       /\ ch' = c
       /\ IF focus_breaks(c)
          THEN /\ focus_file' = FALSE
               /\ mode' = MODE_GRID
               /\ pc' = "adjust"
          ELSE UNCHANGED << focus_file, mode, pc >>
  /\ last_io' = "fkey"
  /\ UNCHANGED << grid_cols, count, entries, gen_i, selected, running, scroll_offset,
                  screenVars, files, removed, tearVars, ever_raw, encVars,
                  adj_from, ws_same,
                  term, atexit, stderr, exit_status, n_restore >>

\* The process is ended by a signal while read() blocks; the program installs
\* no signal handler, and handlers registered with atexit do not run.
SignalKill ==
  /\ pc \in {"read", "focus_read"}
  /\ pc' = "killed"
  /\ adj_from' = -1
  /\ ws_same' = FALSE
  /\ last_io' = "none"
  /\ UNCHANGED << progVars, screenVars, fileVars, tearVars, ever_raw, encVars,
                  term, atexit, stderr, exit_status, n_restore >>

(* -------------------- MAIN: TEARDOWN (iv.c 613-625) -------------------- *)

\* the paths remove_thumbnails passes to remove()
remove_thumbnails(ents, cnt) ==
  {i \in 0..(cnt - 1) : ents[i].generated = 1 /\ ents[i].thumb_path # NULL}

\* disable_raw_mode(); kitty_delete_all(); remove_thumbnails(); free_imagelist(); clear
Teardown ==
  /\ pc = "teardown"
  /\ term' = disable_raw_mode(term)
  /\ n_restore' = n_restore + 1
  /\ n_clear_all' = n_clear_all + 1
  /\ removed' = removed \cup remove_thumbnails(entries, count)
  /\ files' = files \ remove_thumbnails(entries, count)
  /\ n_remove' = n_remove + 1
  /\ entries' = <<>>
  /\ count' = 0
  /\ n_free' = n_free + 1
  /\ pc' = "return"
  /\ UNCHANGED << grid_cols, gen_i, mode, selected, running, ch, scroll_offset,
                  screenVars, focus_file, ever_raw, encVars, histVars, atexit, stderr, exit_status >>

\* return 0;
ReturnFromMain ==
  /\ pc = "return"
  /\ Exit(0)
  /\ UNCHANGED << progVars, screenVars, fileVars, tearVars, ever_raw, encVars, histVars, stderr >>

Next ==
  \/ ParseArgs
  \/ LoadImages
  \/ CheckCount
  \/ GenThumb
  \/ EnableRawMode
  \/ AdjustScroll
  \/ RenderGrid
  \/ GridKey
  \/ FocusEnter
  \/ FocusKey
  \/ SignalKill
  \/ Teardown
  \/ ReturnFromMain

Spec == Init /\ [][Next]_vars

(* -------------------- THE ENCODER ALONE -------------------- *)

\* display_thumbnail_kitty is handed a null pointer or any path of up to MaxPathLen bytes
InitEnc ==
  /\ pc = "encode"
  /\ enc_path \in {NULL} \cup SeqsUpTo(PathBytes, MaxPathLen)
  /\ enc_out = <<>>
  /\ grid_cols = 4
  /\ count = 0
  /\ entries = <<>>
  /\ gen_i = 0
  /\ mode = MODE_GRID
  /\ selected = 0
  /\ running = 1
  /\ ch = NoKey
  /\ scroll_offset = 0
  /\ ws_adj = -1
  /\ frame = NoFrame
  /\ term = "orig"
  /\ atexit = <<>>
  /\ files = {}
  /\ focus_file = FALSE
  /\ removed = {}
  /\ stderr = {}
  /\ exit_status = -1
  /\ n_restore = 0
  /\ n_clear_all = 0
  /\ n_remove = 0
  /\ n_free = 0
  /\ ever_raw = FALSE
  /\ ever_rendered = FALSE
  /\ adj_from = -1
  /\ ws_same = FALSE
  /\ last_io = "none"

\* display_thumbnail_kitty(enc_path), with calloc in b64encode_path succeeding or not
EncodeDisplay ==
  /\ pc = "encode"
  /\ \E allocOk \in BOOLEAN : enc_out' = display_thumbnail_kitty(enc_path, allocOk)
  /\ pc' = "encoded"
  /\ UNCHANGED << progVars, screenVars, fileVars, tearVars, ever_raw, enc_path, histVars,
                  term, atexit, stderr, exit_status, n_restore >>

NextEnc == EncodeDisplay

SpecEnc == InitEnc /\ [][NextEnc]_vars

(* -------------------- PROPERTIES -------------------- *)

\* the positions of the process between enable_raw_mode and free_imagelist
ListAlive == pc \in {"adjust", "render", "read", "focus", "focus_read", "teardown", "killed"}

\* a step of GridKey: one keystroke read and dispatched in the grid branch
GridKeyStep == pc = "read" /\ pc' \in {"adjust", "focus", "teardown"}

\* the index a navigation key aims at
NavTarget(c, sel, cols) ==
  IF c = 104 THEN sel - 1
  ELSE IF c = 108 THEN sel + 1
  ELSE IF c = 107 THEN sel - cols
  ELSE sel + cols

\* C1: with at least one item and at least one column, selected is a valid
\* index (0 <= selected < item_count) in every state from the start of the main
\* loop on, whatever keys were read; and a navigation key (h, j, k, l) whose
\* target index lies outside 0..item_count-1 leaves selected unchanged.
C1_SelectionValid ==
  /\ [](ListAlive => count >= 1 /\ grid_cols >= 1 /\ 0 <= selected /\ selected < count)
  /\ [][(GridKeyStep /\ ch' \in {104, 106, 107, 108}
          /\ NavTarget(ch', selected, grid_cols) \notin 0..(count - 1))
        => selected' = selected]_vars

\* C1 witness: j was read and refused at a selection other than 0
C1_Witness ==
  pc = "adjust" /\ ch = 106 /\ selected > 0 /\ selected + grid_cols >= count

CeilDiv(a, b) == CHOOSE t \in 0..a : t * b >= a /\ (t - 1) * b < a
Max2(a, b) == IF a >= b THEN a ELSE b

\* C2: right after adjust_scroll_for_selection, with visible_rows =
\* max(1, terminal_rows / 6) for the row count it read and total_rows =
\* ceil(item_count / columns): 0 <= scroll_offset <= max(0, total_rows - visible_rows)
\* and scroll_offset <= selected / columns < scroll_offset + visible_rows.
C2_ScrollInvariant ==
  pc = "render" =>
    LET visible == Max2(1, ws_adj \div (THUMB_ROWS + SPACING_ROWS))
        total == CeilDiv(count, grid_cols)
        sel_row == selected \div grid_cols
    IN  /\ 0 <= scroll_offset
        /\ scroll_offset <= Max2(0, total - visible)
        /\ scroll_offset <= sel_row
        /\ sel_row < scroll_offset + visible

\* C2 witness: a window of two or more rows was scrolled down so that the
\* selected row is its last row, and rows remain below it
C2_Witness ==
  /\ pc = "render"
  /\ ws_adj \div (THUMB_ROWS + SPACING_ROWS) >= 2
  /\ scroll_offset >= 1
  /\ selected \div grid_cols = scroll_offset + ws_adj \div (THUMB_ROWS + SPACING_ROWS) - 1
  /\ scroll_offset < CeilDiv(count, grid_cols) - ws_adj \div (THUMB_ROWS + SPACING_ROWS)

\* C3: in Grid mode h and k read at selected = 0 leave selected unchanged, l and
\* j read at selected = item_count - 1 leave it unchanged, and h and l never
\* change selected / columns (no wrap to the adjacent row).
C3_NavigationBoundaries ==
  [][GridKeyStep =>
       /\ (selected = 0 /\ ch' \in {104, 107}) => selected' = selected
       /\ (selected = count - 1 /\ ch' \in {108, 106}) => selected' = selected
       /\ ch' \in {104, 108} => selected' \div grid_cols = selected \div grid_cols]_vars

\* C3 witness: l was read at index 3 with 4 columns and an item at index 4, and
\* selected is still 3
C3_Witness ==
  pc = "adjust" /\ ch = 108 /\ selected = 3 /\ grid_cols = 4 /\ count > 4

\* the positions of the main loop
InLoop == pc \in {"adjust", "render", "read", "focus", "focus_read"}

\* C4: mode starts as Grid; the program leaves its main loop only from Grid, on
\* q or end-of-input read there; Focus is entered only from Grid and only by
\* Enter; and the only way out of Focus is back to Grid: a key read in Focus
\* never ends the loop, and ESC, q and end-of-input read there return to Grid.
\* (Termination here is the program's own; a signal ends it in either mode.)
C4_ModeMachine ==
  /\ mode = MODE_GRID
  /\ [](InLoop => (mode = MODE_FOCUS <=> pc \in {"focus", "focus_read"}))
  /\ [][(pc = "raw" /\ pc' = "adjust") => mode' = MODE_GRID]_vars
  /\ [][(InLoop /\ (running' = 0 \/ pc' \in {"teardown", "return", "exited"}))
        => (pc = "read" /\ mode = MODE_GRID /\ mode' = MODE_GRID
            /\ ch' \in {EOF, 113} /\ pc' = "teardown")]_vars
  /\ [][(mode # MODE_FOCUS /\ mode' = MODE_FOCUS)
        => (pc = "read" /\ mode = MODE_GRID /\ ch' \in {10, 13})]_vars
  /\ [][(mode = MODE_FOCUS /\ pc' # "killed")
        => /\ running' = 1
           /\ mode' = MODE_FOCUS \/ (mode' = MODE_GRID /\ pc' = "adjust")
           /\ (pc = "focus_read" /\ ch' \in {27, 113, EOF})
                => (mode' = MODE_GRID /\ pc' = "adjust")]_vars

\* C4 witness: q was read in Focus and the program is back in Grid, still running
C4_Witness ==
  pc = "adjust" /\ ch = 113 /\ mode = MODE_GRID /\ running = 1

\* C5: in no terminated state that follows the setting of raw mode is the
\* terminal still in raw mode: the original settings are back after a normal
\* return, after quit, and after the process is ended while it blocks on a read.
C5_RawModeRestored ==
  (pc \in {"exited", "killed"} /\ ever_raw) => term = "orig"

\* C6: when the process has exited, by whatever path (the fatal exits of
\* enable_raw_mode included), the terminal is in its original mode, every
\* thumbnail file this run generated has been deleted, and the clear-all
\* command has been sent if anything was drawn.
C6_TeardownOnEveryExit ==
  pc = "exited" =>
    /\ term = "orig"
    /\ files = {}
    /\ ever_rendered => n_clear_all >= 1

\* C7: when the process has exited after the main loop ended (q or
\* end-of-input in Grid), clear-all has been sent exactly once and terminal
\* restoration, thumbnail deletion and list release have each run exactly once.
C7_TeardownExactlyOnce ==
  (pc = "exited" /\ running = 0) =>
    /\ n_clear_all = 1
    /\ n_restore = 1
    /\ n_remove = 1
    /\ n_free = 1

\* the loader delivered an empty list (and the list has not been released)
EmptyListLoaded ==
  /\ pc \notin {"args", "load", "encode", "encoded"}
  /\ count = 0
  /\ n_free = 0
  /\ stderr \cap {"usage", "opendir", "Could not read directory.", "Out of memory."} = {}

\* C8: with an empty item list the program only reports the error and exits
\* with a non-zero status: raw mode is never entered, no thumbnail is
\* generated, no frame is rendered, and the terminal mode is the one at start.
C8_EmptyListExits ==
  EmptyListLoaded =>
    /\ pc \in {"check", "exited"}
    /\ ~ever_raw /\ term = "orig" /\ atexit = <<>>
    /\ gen_i = 0 /\ files = {}
    /\ ~ever_rendered /\ frame = NoFrame
    /\ pc = "exited" => (exit_status # 0 /\ "No images found." \in stderr)

\* C8 witness: the process has exited on the empty list
C8_Witness ==
  EmptyListLoaded /\ pc = "exited" /\ exit_status = 1

\* the thumbnail operations of the current frame
ThumbOps == {k \in 1..Len(frame.ops) : frame.ops[k].op = "thumb"}

\* the items whose thumbnail generation has run and has failed
FailedItems == {i \in 0..(gen_i - 1) : i \notin files}

\* C9: a failed thumbnail generation is never fatal: the step goes on to the
\* next item or to enable_raw_mode and leaves the item count, the order of the
\* items and the failed item's entry (absent path, flag cleared) as they were;
\* from then on every failed item has an absent path and a cleared flag, every
\* frame draws it as the placeholder "[?]" wherever it draws it, and
\* remove_thumbnails passes to remove() only paths of generated thumbnails.
C9_ThumbnailFailureNotFatal ==
  /\ [][(pc = "gen" /\ files' = files)
        => /\ pc' \in {"gen", "raw"}
           /\ exit_status' = -1
           /\ count' = count
           /\ entries' = entries
           /\ entries[gen_i].thumb_path = NULL
           /\ entries[gen_i].generated = 0]_vars
  /\ [][pc = "gen"
        => /\ count' = count
           /\ \A i \in 0..(count - 1) : entries'[i].original_path = entries[i].original_path]_vars
  /\ []((pc = "gen" \/ pc = "raw" \/ ListAlive)
        => \A i \in FailedItems :
             entries[i].thumb_path = NULL /\ entries[i].generated = 0)
  /\ [](frame.drawn
        => \A k \in ThumbOps :
             frame.ops[k].i \in FailedItems => frame.ops[k].out = <<91, 63, 93>>)
  /\ [][pc = "teardown"
        => \A i \in removed' \ removed :
             i \in files /\ i \notin FailedItems]_vars

\* C9 witness: a frame of the grid loop shows a failed item as the placeholder
\* next to an item whose thumbnail was generated
C9_Witness ==
  /\ pc = "read"
  /\ frame.drawn
  /\ \E k \in ThumbOps : frame.ops[k].i \in FailedItems /\ frame.ops[k].out = <<91, 63, 93>>
  /\ \E k \in ThumbOps : frame.ops[k].i \notin FailedItems

(* Standard base64 (RFC 4648), written as a decoder. *)

\* the 6-bit value of a character of the alphabet A-Z a-z 0-9 + /, else -1
B64Value(c) ==
  IF c >= 65 /\ c <= 90 THEN c - 65
  ELSE IF c >= 97 /\ c <= 122 THEN c - 71
  ELSE IF c >= 48 /\ c <= 57 THEN c + 4
  ELSE IF c = 43 THEN 62
  ELSE IF c = 47 THEN 63
  ELSE -1

\* the bytes a group of four characters stands for, <<-1>> if it is not canonical
B64DecodeGroup(q, last) ==
  LET v(k) == B64Value(q[k])
      n == v(1) * 262144 + v(2) * 4096
             + (IF q[3] = 61 THEN 0 ELSE v(3) * 64) + (IF q[4] = 61 THEN 0 ELSE v(4))
      b1 == n \div 65536
      b2 == (n \div 256) % 256
      b3 == n % 256
  IN  IF v(1) < 0 \/ v(2) < 0 THEN <<-1>>
      ELSE IF q[3] = 61
      THEN (IF last /\ q[4] = 61 /\ v(2) % 16 = 0 THEN <<b1>> ELSE <<-1>>)
      ELSE IF v(3) < 0 THEN <<-1>>
      ELSE IF q[4] = 61
      THEN (IF last /\ v(3) % 4 = 0 THEN <<b1, b2>> ELSE <<-1>>)
      ELSE IF v(4) < 0 THEN <<-1>>
      ELSE <<b1, b2, b3>>

RECURSIVE B64Decode(_)
B64Decode(t) ==
  IF Len(t) = 0 THEN <<>>
  ELSE IF Len(t) < 4 THEN <<-1>>
  ELSE B64DecodeGroup(SubSeq(t, 1, 4), Len(t) = 4) \o B64Decode(SubSeq(t, 5, Len(t)))

\* whether the bytes p occur in the bytes t
Occurs(p, t) == \E k \in 1..(Len(t) - Len(p) + 1) : SubSeq(t, k, k + Len(p) - 1) = p

\* what lies between the first ';' of t and its last two bytes
Payload(t) ==
  LET semi == CHOOSE k \in 1..Len(t) : t[k] = 59 /\ \A j \in 1..(k - 1) : t[j] # 59
  IN  SubSeq(t, semi + 1, Len(t) - 2)

\* C10: for every path, what display_thumbnail_kitty prints (when the buffer
\* for the encoding could be allocated) is ESC _ G ... ';', a payload, ESC \,
\* and the payload is the standard padded base64 of the path: 4 * ceil(len / 3)
\* characters that decode to the path byte for byte; for an absent path the
\* output is "[?]" and does not contain ESC _ G.
C10_EncodeRoundTrip ==
  pc = "encoded" =>
    IF enc_path = NULL
    THEN enc_out = <<91, 63, 93>> /\ ~Occurs(<<27, 95, 71>>, enc_out)
    ELSE \/ enc_out = B64FailText
         \/ /\ SubSeq(enc_out, 1, 3) = <<27, 95, 71>>
            /\ Occurs(<<59>>, enc_out)
            /\ SubSeq(enc_out, Len(enc_out) - 1, Len(enc_out)) = <<27, 92>>
            /\ Len(Payload(enc_out)) = 4 * CeilDiv(Len(enc_path), 3)
            /\ B64Decode(Payload(enc_out)) = enc_path

\* C10 witness: a path of length 1 mod 3 was encoded, with a payload ending in "=="
C10_Witness ==
  /\ pc = "encoded"
  /\ enc_path # NULL
  /\ Len(enc_path) % 3 = 1
  /\ Occurs(<<59>>, enc_out)
  /\ LET t == Payload(enc_out) IN Len(t) = 4 /\ t[3] = 61 /\ t[4] = 61 /\ B64Decode(t) = enc_path

(* -------------------- C11 -------------------- *)

\* the row counts the two ioctl calls can deliver, and the offsets tried as a start
RowCounts == {IF ws.ok THEN ws.row ELSE 24 : ws \in Winsizes}
StartOffsets == -1 .. MaxItems

\* C11: for the list and the column count the program has loaded, for every
\* selection, every starting scroll_offset and every terminal row count, a
\* second call of adjust_scroll_for_selection leaves the offset the first call
\* produced, and so does the clamp of render_grid for the same row count; and
\* in the loop the offset adjust_scroll_for_selection has just stored is such
\* a fixed point.
C11_ScrollIdempotent ==
  /\ pc = "raw" =>
       \A sel \in 0..(count - 1), so \in StartOffsets, r \in RowCounts :
         LET first == adjust_scroll_for_selection(so, r, count, grid_cols, sel)
         IN  /\ adjust_scroll_for_selection(first, r, count, grid_cols, sel) = first
             /\ clamp_scroll(first, total_rows_of(count, grid_cols), visible_rows_of(r)) = first
  /\ pc = "render" =>
       /\ adjust_scroll_for_selection(scroll_offset, ws_adj, count, grid_cols, selected)
            = scroll_offset
       /\ clamp_scroll(scroll_offset, total_rows_of(count, grid_cols),
                       visible_rows_of(ws_adj)) = scroll_offset

\* adjust_scroll_for_selection has just moved the offset by more than one row
C11_Witness ==
  /\ pc = "render"
  /\ adj_from >= 0
  /\ scroll_offset > adj_from + 1

(* -------------------- C12 -------------------- *)

Min2(a, b) == IF a < b THEN a ELSE b

\* the offset the minimal-scroll rule alone asks for, from the offset so
MinimalScroll(so, vis, sel_row) ==
  IF sel_row < so THEN sel_row
  ELSE IF sel_row >= so + vis THEN sel_row - vis + 1
  ELSE so

\* the largest offset that still fills the window: max(0, total_rows - visible_rows)
MaxOffset(cnt, cols, vis) == Max2(0, CeilDiv(cnt, cols) - vis)

\* adjust_scroll_for_selection has just run: adj_from is the offset it found,
\* ws_adj the row count it read, scroll_offset the offset it left
Adjusted == pc = "render" /\ adj_from >= 0

\* C12 as stated: for every prior offset and every row count the offset
\* adjust_scroll_for_selection leaves is the one of the minimal-scroll rule.
C12_MinimalScrollAlways ==
  Adjusted =>
    scroll_offset = MinimalScroll(adj_from, visible_rows_of(ws_adj), selected \div grid_cols)

\* C12 amended: the offset adjust_scroll_for_selection leaves is the one of the
\* minimal-scroll rule brought into [0, max(0, total_rows - visible_rows)]; it
\* is the one of the minimal-scroll rule itself whenever the prior offset is
\* inside that range (unchanged with the selection in the window, sel_row above
\* it, sel_row - visible_rows + 1 below it); and 10 items in 4 columns with
\* item 9 selected, two visible rows and offset 0 give offset 1.
C12_MinimalScrollClamped ==
  /\ Adjusted =>
       LET vis == visible_rows_of(ws_adj)
           minimal == MinimalScroll(adj_from, vis, selected \div grid_cols)
           top == MaxOffset(count, grid_cols, vis)
       IN  /\ scroll_offset = Min2(Max2(minimal, 0), top)
           /\ adj_from <= top => scroll_offset = minimal
  /\ visible_rows_of(12) = 2
  /\ adjust_scroll_for_selection(0, 12, 10, 4, 9) = 1

\* the selection was inside the window, and the clamp moved the offset all the same
C12_Witness ==
  /\ Adjusted
  /\ selected \div grid_cols >= adj_from
  /\ selected \div grid_cols < adj_from + visible_rows_of(ws_adj)
  /\ scroll_offset < adj_from

(* -------------------- C13 -------------------- *)

FocusLeft == mode = MODE_FOCUS /\ mode' = MODE_GRID

\* a read of focus_view returned a key that is not ESC, q or EOF
FocusKeyIgnored == pc = "focus_read" /\ pc' # "killed" /\ ch' \notin {27, 113, EOF}

\* render_grid draws the first grid frame after focus_view was left by a key
FrameAfterFocus == pc = "render" /\ last_io = "fkey" /\ pc' = "read"

\* what C14 says of the stay in Focus itself: Enter, the keys read in Focus and
\* the way to the next frame leave selected, and Focus leaves scroll_offset
FocusKeepsState ==
  /\ (pc = "read" /\ mode' = MODE_FOCUS) =>
       (selected' = selected /\ scroll_offset' = scroll_offset)
  /\ mode = MODE_FOCUS => (selected' = selected /\ scroll_offset' = scroll_offset)
  /\ FocusKeyIgnored =>
       (pc' = "focus_read" /\ mode' = MODE_FOCUS /\ focus_file' = focus_file
          /\ running' = running)
  /\ FrameAfterFocus =>
       (selected' = selected /\ frame'.status = entries[selected].original_path)

WindowItems ==
  {i \in 0..(count - 1) :
     /\ i \div grid_cols >= scroll_offset
     /\ i \div grid_cols < scroll_offset + Max2(1, frame.ws_row \div (THUMB_ROWS + SPACING_ROWS))
     /\ i \div grid_cols < CeilDiv(count, grid_cols)}

\* the frame draws the items of the window, each once, and no other
DrawsWindowOnce ==
  /\ \A k \in ThumbOps : frame.ops[k].i \in WindowItems
  /\ \A i \in WindowItems : Cardinality({k \in ThumbOps : frame.ops[k].i = i}) = 1

\* every thumbnail of the frame is drawn with the cursor at
\* ((row - scroll_offset) * h + 1, col * w + 1)
CursorAtPitch(h, w) ==
  \A k \in ThumbOps :
    LET i == frame.ops[k].i
    IN  /\ frame.ops[k].row = (i \div grid_cols - scroll_offset) * h + 1
        /\ frame.ops[k].col = (i % grid_cols) * w + 1

\* C15 as stated: a grid frame draws exactly the items of the window, each
\* once, with the cursor at ((row - scroll_offset) * cell_height + 1,
\* col * cell_width + 1) for the thumbnail's own height and width, 5 and 10.
C15_CursorAtCellSize ==
  frame.drawn => (DrawsWindowOnce /\ CursorAtPitch(THUMB_ROWS, THUMB_COLS))

\* C15 amended: a grid frame draws exactly the items of the window, each once,
\* with the cursor at ((row - scroll_offset) * 6 + 1, col * 12 + 1): the pitch
\* is the thumbnail's height plus the row spacing and its width plus the
\* column spacing.
C15_CursorAtCellPitch ==
  frame.drawn =>
    (DrawsWindowOnce /\ CursorAtPitch(THUMB_ROWS + SPACING_ROWS, THUMB_COLS + SPACING_COLS))

\* a scrolled frame with a thumbnail in its second row and one in its second column
C15_Witness ==
  /\ frame.drawn
  /\ scroll_offset >= 1
  /\ \E k \in ThumbOps : frame.ops[k].row = 7
  /\ \E k \in ThumbOps : frame.ops[k].col = 13

(* -------------------- C16 -------------------- *)

StarOps == {k \in 1..Len(frame.ops) : frame.ops[k].op = "star"}

\* the thumbnails the frame draws for the selected item
SelectedOps == {k \in ThumbOps : frame.ops[k].i = selected}

\* C16: in a grid frame for which render_grid read the row count that
\* adjust_scroll_for_selection read before it, the selected item is drawn
\* (once), one '*' is drawn in the whole frame, in the row right below the five
\* rows of the selected thumbnail and within its ten columns, and the status
\* line shows the selected item's original path.
C16_SelectedDrawnAndMarked ==
  (frame.drawn /\ ws_same) =>
    /\ Cardinality(SelectedOps) = 1
    /\ Cardinality(StarOps) = 1
    /\ \A s \in StarOps, k \in SelectedOps :
         /\ frame.ops[s].out = <<42>>
         /\ frame.ops[s].i = selected
         /\ frame.ops[s].row = frame.ops[k].row + THUMB_ROWS
         /\ frame.ops[s].row < frame.ops[k].row + THUMB_ROWS + SPACING_ROWS
         /\ frame.ops[s].col >= frame.ops[k].col
         /\ frame.ops[s].col < frame.ops[k].col + THUMB_COLS
    /\ frame.status = entries[selected].original_path
    /\ frame.status = OrigPath(selected)

\* a scrolled frame of several thumbnails, drawn for the row count the
\* adjustment read, with a selection other than the first item of the window
C16_Witness ==
  /\ frame.drawn
  /\ ws_same
  /\ scroll_offset >= 1
  /\ Cardinality(ThumbOps) >= 3
  /\ selected > scroll_offset * grid_cols

(* -------------------- C17 -------------------- *)

\* C17: in every grid frame, whatever row count render_grid read, the window
\* of rows it draws, [scroll_offset, scroll_offset + visible_rows) for the
\* visible_rows of its own size query, contains the row of the selected item.
C17_WindowHoldsSelection ==
  frame.drawn =>
    LET visible == Max2(1, frame.ws_row \div (THUMB_ROWS + SPACING_ROWS))
        sel_row == selected \div grid_cols
    IN  /\ frame.start_row = scroll_offset
        /\ scroll_offset <= sel_row
        /\ sel_row < scroll_offset + visible

(* -------------------- C18 -------------------- *)

\* C18: every thumbnail box of a grid frame, THUMB_ROWS x THUMB_COLS cells from
\* the cursor position (screen_row, screen_col), lies inside the terminal whose
\* size render_grid read, and the status line row is in [1, terminal_rows].
C18_FrameInsideTerminal ==
  frame.drawn =>
    /\ \A k \in ThumbOps :
         /\ 1 <= frame.ops[k].row
         /\ frame.ops[k].row + THUMB_ROWS - 1 <= frame.ws_row
         /\ 1 <= frame.ops[k].col
         /\ frame.ops[k].col + THUMB_COLS - 1 <= frame.ws_col
    /\ 1 <= frame.bottom
    /\ frame.bottom <= frame.ws_row

(* -------------------- C19 -------------------- *)

\* the selections one h, l, k or j keystroke of the grid branch leads to from S
KeyStep(S, cols, cnt) ==
  S \cup {grid_selected(c, s, cols, cnt) : c \in {104, 108, 107, 106}, s \in S}

\* the selections a finite sequence of h/j/k/l keystrokes leads to from S
RECURSIVE KeyReach(_, _, _)
KeyReach(S, cols, cnt) ==
  IF KeyStep(S, cols, cnt) = S THEN S ELSE KeyReach(KeyStep(S, cols, cnt), cols, cnt)

\* C19: with the grid branch waiting for a key and item 0 selected, every item
\* of the list, and nothing else, is reached by a finite sequence of h/j/k/l
\* keystrokes, for every list and column count of the run; and j from an item
\* with no item one row below it changes nothing.
C19_EveryItemSelectable ==
  (pc = "read" /\ selected = 0) =>
    /\ count >= 1 /\ grid_cols >= 1
    /\ KeyReach({selected}, grid_cols, count) = 0..(count - 1)
    /\ \A s \in 0..(count - 1) :
         s + grid_cols >= count => grid_selected(106, s, grid_cols, count) = s

\* the last item of a partial last row has just been selected by j or l
C19_Witness ==
  /\ pc = "adjust"
  /\ ch \in {106, 108}
  /\ selected = count - 1
  /\ grid_cols > 1
  /\ count > grid_cols
  /\ count % grid_cols # 0

(* -------------------- C20 -------------------- *)

\* the steps left to the end of the program when every read returns EOF
EofRank ==
  CASE pc = "focus" -> 7
    [] pc = "focus_read" -> 6
    [] pc = "adjust" -> 5
    [] pc = "render" -> 4
    [] pc = "read" -> 3
    [] pc = "teardown" -> 2
    [] pc = "return" -> 1
    [] OTHER -> 0

\* a step of the program from the loop on in which no read returns a key: it
\* reads nothing, or its read returns EOF
EofStep ==
  \/ pc \in {"focus", "adjust", "render", "teardown", "return"}
  \/ pc \in {"read", "focus_read"} /\ ch' = EOF

\* such a step that takes the program nearer to its exit
EofProgress == Next /\ EofStep /\ EofRank' < EofRank

\* main has left the loop, run its teardown once and returned 0
NormalTeardownDone ==
  /\ pc = "exited"
  /\ exit_status = 0
  /\ running = 0
  /\ n_clear_all = 1
  /\ n_remove = 1
  /\ n_free = 1
  /\ term = "orig"

\* C20: from every state of the loop, with every read returning EOF the
\* program does not loop: each of its steps takes it nearer to the exit (EOF in
\* focus_view: back to the grid branch with running still 1, then one
\* adjustment, one grid frame, one read; EOF in the grid branch: running = 0
\* and the teardown); wherever the program is about to read, to adjust, to
\* enter focus_view, to tear down or to return, such a step is possible (the
\* step of render_grid has no condition); Focus is entered only by a read that
\* returned Enter; and a program that exits from the loop has run the teardown
\* once and returned 0.
C20_TerminatesAtEof ==
  /\ [][EofStep => (EofRank' < EofRank /\ pc' # "killed")]_vars
  /\ [][(pc = "focus_read" /\ ch' = EOF)
          => (pc' = "adjust" /\ mode' = MODE_GRID /\ running' = 1)]_vars
  /\ [][(pc = "read" /\ ch' = EOF)
          => (pc' = "teardown" /\ mode' = MODE_GRID /\ running' = 0)]_vars
  /\ [][pc' = "focus" => (pc = "read" /\ ch' \in {10, 13})]_vars
  /\ [](pc \in {"focus", "focus_read", "adjust", "read", "teardown", "return"}
          => ENABLED EofProgress)
  /\ []((pc = "exited" /\ ever_rendered) => NormalTeardownDone)

\* focus_view was left by a read that returned EOF: main is back in the grid
\* branch and still running
C20_Witness ==
  /\ pc = "adjust"
  /\ ch = EOF
  /\ last_io = "fkey"
  /\ mode = MODE_GRID
  /\ running = 1

====
